---------------------------- MODULE Spec2Model ----------------------------
(***************************************************************************)
(* Model of the granola-lite backend: the notes API (backend/main.py), the *)
(* RAG service (backend/rag_service.py), the LLM client                    *)
(* (backend/services/llm_service.py) and the per-user conversation memory  *)
(* (backend/memory/manager.py).                                            *)
(*                                                                         *)
(* Python values are modelled as follows.  A dict with a fixed set of keys *)
(* is a record, a list is a sequence, a dict keyed by data is a function   *)
(* whose DOMAIN is the set of keys present.  An Optional value is a set:   *)
(* None is {} and a present value x is {x}.  A timestamp is a natural      *)
(* number: datetime.utcnow().isoformat() yields strings whose              *)
(* lexicographic order (the order max() uses at manager.py:136) is the     *)
(* order of the instants they denote.                                      *)
(***************************************************************************)
EXTENDS Integers, Sequences, FiniteSets, TLC

VARIABLES
    user_memories,  \* ConversationManager.user_memories: user id -> memory dict
    notes,          \* committed rows of table notes: id -> [title, content]
    vectors,        \* committed rows of table note_embeddings
    next_note_id,   \* serial of notes.id
    next_vec_id,    \* serial of note_embeddings.id
    req,            \* in-flight HTTP requests: slot -> coroutine state
    clock,          \* what datetime.utcnow() returns now
    hung,           \* the event loop is stuck in a blocking database call
    resp,           \* what the step just taken returned to its caller, with
                    \* what it retrieved, generated or destroyed on the way
    recorded,       \* history: user id -> every turn recorded since the user's
                    \* state was last destroyed (or since the start)
    ops             \* number of API calls started so far (bounds the model)

vars == <<user_memories, notes, vectors, next_note_id, next_vec_id,
          req, clock, hung, resp, recorded, ops>>

-----------------------------------------------------------------------------
(* Bounds of the model and the small sets inputs are drawn from.           *)

MaxOps == 3
MgrOps == 3
FreeCalls == 4
MaxClock == 1
MaxSlots == 2
SearchOps == 4
PromptOps == 5
SummaryOps == 3

Users == {"u1", "u2"}
ConvIds == {"default", "c2"}
Texts == {"hello"}
Limits == {0, 1, 2, 20}
CtxKeys == {"lang"}
CtxVals == {"en", "pt"}
Titles == {"t1"}
Contents == {"c1", "c2"}
Questions == {"q1", "q2"}
Answers == {"a1"}
Summaries == {"s1"}
TopKs == {1, 2, 3, 5}
Slots == 1..MaxSlots

None == {}
Some(x) == {x}

-----------------------------------------------------------------------------
(* Python built-ins used by the code.                                      *)

\* s[start:] for a list s and an integer start (negative counts from the end;
\* -0 is 0, so s[-0:] is the whole list).
PySliceFrom(s, start) ==
    LET n  == Len(s)
        lo == IF start < 0
              THEN (IF start + n < 0 THEN 0 ELSE start + n)
              ELSE (IF start > n THEN n ELSE start)
    IN  SubSeq(s, lo + 1, n)

\* max() of a non-empty collection of naturals.
PyMax(S) == CHOOSE m \in S : \A x \in S : x <= m

\* dict.update(new) on dict old.
PyDictUpdate(old, new) ==
    [k \in (DOMAIN old) \cup (DOMAIN new) |->
        IF k \in DOMAIN new THEN new[k] ELSE old[k]]

-----------------------------------------------------------------------------
(* backend/memory/manager.py : ConversationManager                         *)

WindowK == 10
MaxConversations == 100

HumanMessage(content) == [type |-> "HumanMessage", content |-> content]
AIMessage(content) == [type |-> "AIMessage", content |-> content]

\* The conversation dict add_message appends to the log.
Turn(conversation_id, now, message, is_user) ==
    [id |-> conversation_id, timestamp |-> now,
     message |-> message, is_user |-> is_user]

\* The dict get_user_memory creates for a user it has not seen.  Of the
\* ConversationSummaryMemory it holds the message list
\* (chat_memory.messages) and the running summary (buffer).
FreshMemory ==
    [summary_memory |-> [messages |-> <<>>, buffer |-> ""],
     buffer_memory |-> <<>>, conversations |-> <<>>, context |-> <<>>]

\* get_user_memory: the registry after the lazy creation of u's entry.
get_user_memory(um, u) ==
    IF u \in DOMAIN um
    THEN um
    ELSE [x \in (DOMAIN um) \cup {u} |-> IF x = u THEN FreshMemory ELSE um[x]]

\* ConversationBufferWindowMemory.save_context as add_message calls it:
\* one HumanMessage and one AIMessage are appended to chat_memory.messages.
\* k only limits what load_memory_variables returns; chat_memory.messages,
\* which get_recent_context reads, is never trimmed.
save_context(messages, input, output) ==
    messages \o <<HumanMessage(input), AIMessage(output)>>

\* Variant of TrimConversations that keeps the first 100 (convs[:100]).
TrimConversationsKeepFirst(convs) ==
    IF Len(convs) > MaxConversations
    THEN SubSeq(convs, 1, MaxConversations)
    ELSE convs

\* Keep only last 100 conversations per user.
TrimConversations(convs) ==
    IF Len(convs) > MaxConversations
    THEN PySliceFrom(convs, -MaxConversations)
    ELSE convs

add_message(um, u, message, is_user, conversation_id, now) ==
    LET um1  == get_user_memory(um, u)
        m    == um1[u]
        buf  == save_context(m.buffer_memory,
                             IF is_user THEN message ELSE "",
                             IF ~is_user THEN message ELSE "")
        conv == Turn(conversation_id, now, message, is_user)
    IN  [um1 EXCEPT ![u] =
            [m EXCEPT !.buffer_memory = buf,
                      !.conversations = TrimConversations(Append(m.conversations, conv))]]

get_conversation_history(um, u, conversation_id, limit) ==
    LET convs == get_user_memory(um, u)[u].conversations
    IN  PySliceFrom(SelectSeq(convs, LAMBDA c : c.id = conversation_id), -limit)

get_recent_context(um, u) == get_user_memory(um, u)[u].buffer_memory

get_user_context(um, u) == get_user_memory(um, u)[u].context

\* Variant of update_user_context in which all users share one context dict.
update_user_context_shared(um, u, context) ==
    LET um1 == get_user_memory(um, u)
    IN  [x \in DOMAIN um1 |->
            [um1[x] EXCEPT !.context = PyDictUpdate(@, context)]]

update_user_context(um, u, context) ==
    LET um1 == get_user_memory(um, u)
    IN  [um1 EXCEPT ![u].context = PyDictUpdate(@, context)]

\* Variant of clear_user_memory that goes through get_user_memory and
\* resets the entry instead of deleting it.
clear_user_memory_resets(um, u) ==
    [get_user_memory(um, u) EXCEPT ![u] = FreshMemory]

\* Variant of clear_user_memory that empties the log and keeps the entry.
clear_user_memory_log_only(um, u) ==
    IF u \in DOMAIN um
    THEN [um EXCEPT ![u].conversations = <<>>]
    ELSE um

clear_user_memory(um, u) ==
    IF u \in DOMAIN um
    THEN [x \in (DOMAIN um) \ {u} |-> um[x]]
    ELSE um

\* Variant of get_conversation_stats that takes the last turn's timestamp
\* for the last activity.
get_conversation_stats_last_turn(um, u) ==
    LET conversations == get_user_memory(um, u)[u].conversations
        n == Len(conversations)
    IN  IF n = 0
        THEN [total_messages |-> 0, conversations |-> 0, last_activity |-> None]
        ELSE [total_messages |-> n,
              conversations  |-> Cardinality({conversations[i].id : i \in 1..n}),
              last_activity  |-> Some(conversations[n].timestamp)]

get_conversation_stats(um, u) ==
    LET conversations == get_user_memory(um, u)[u].conversations
        n == Len(conversations)
    IN  IF n = 0
        THEN [total_messages |-> 0, conversations |-> 0, last_activity |-> None]
        ELSE [total_messages |-> n,
              conversations  |-> Cardinality({conversations[i].id : i \in 1..n}),
              last_activity  |-> Some(PyMax({conversations[i].timestamp : i \in 1..n}))]

\* get_summary_context: what it hands to predict_new_summary, the messages
\* to condense and the summary to start from.
get_summary_context(um, u) ==
    LET user_memory == get_user_memory(um, u)[u]
    IN  [messages |-> user_memory.summary_memory.messages,
         existing_summary |-> ""]

export_user_data(um, u, now) ==
    LET user_memory == get_user_memory(um, u)[u]
    IN  [user_id |-> u,
         conversations |-> user_memory.conversations,
         context |-> user_memory.context,
         stats |-> get_conversation_stats(get_user_memory(um, u), u),
         exported_at |-> now]

-----------------------------------------------------------------------------
(* backend/services/llm_service.py : the embedding and chat capabilities.  *)
(* Both are black boxes.  A text is the sequence of the parts it is        *)
(* formatted from; its embedding is a point on a line, and the cosine      *)
(* distance of two embeddings (pgvector's <=>, in [0, 2]) is the distance  *)
(* of the points, capped at 2.                                             *)

Topic(word) ==
    CASE word = "c1" -> 1
      [] word = "q1" -> 1
      [] word = "c2" -> 3
      [] word = "q2" -> 3
      [] OTHER -> 0

RECURSIVE SumTopics(_)
SumTopics(words) ==
    IF words = <<>> THEN 0 ELSE Topic(Head(words)) + SumTopics(Tail(words))

\* OllamaEmbeddings.embed_query
embed_query(words) == SumTopics(words)

\* get_embedding: what the awaited call can return for a text:
\* the embedding, or None when the capability raised.
get_embedding(words) == {Some(embed_query(words)), None}

\* generate_response: the text of the chat completion (possibly empty), or
\* None when the capability raised.
generate_response(messages) == {Some(a) : a \in Answers \cup {""}} \cup {None}

\* ConversationSummaryMemory.predict_new_summary: one generation call on
\* the memory's llm, which returns the new summary or raises (None).
predict_new_summary(messages, existing_summary) ==
    {Some(x) : x \in Summaries} \cup {None}

CosineDistance(a, b) ==
    LET d == IF a < b THEN b - a ELSE a - b
    IN  IF d > 2 THEN 2 ELSE d

-----------------------------------------------------------------------------
(* backend/database.py and the sessions of backend/main.py.                *)
(* notes and vectors are the committed rows.  A session's statements run   *)
(* in one transaction until db.commit(); get_db closes the session when    *)
(* the request is over, which rolls back what was not committed.  The only *)
(* uncommitted work a request carries across an await is the bulk DELETE   *)
(* of update_note (req[s].deleted): its rows stay visible to every other   *)
(* session, and locked, until the transaction ends.                        *)

TopK == 3

Idle == [pc |-> "idle"]

Busy(s) == req[s].pc # "idle"

\* Requests are interchangeable: a new one takes the lowest free slot.
FreeSlot(s) == ~Busy(s) /\ \A t \in Slots : t < s => Busy(t)

\* Rows of note_embeddings another in-flight transaction has deleted and
\* not yet committed: a DELETE that reaches one of them waits for the lock.
LockedBy(s) == IF req[s].pc = "add_note" THEN req[s].deleted ELSE {}

LockedByOthers(s) == UNION {LockedBy(t) : t \in Slots \ {s}}

EmbeddingsOf(note_id) == {v \in vectors : v.note_id = note_id}

NoteObject(id) == [id |-> id, title |-> notes[id].title, content |-> notes[id].content]

\* text_content = f"{note.title} {note.content}"
NoteText(note) == <<note.title, note.content>>

-----------------------------------------------------------------------------
(* backend/main.py and backend/rag_service.py : note mutations.            *)

\* The index operation each note handler of main.py calls.
IndexOperation(handler) ==
    CASE handler = "create" -> "add_note"
      [] handler = "update" -> "update_note"
      [] handler = "delete" -> "remove_note"

\* Variant of HandlerCalls that calls the index operation before the commit.
HandlerCallsIndexFirst(handler, note_id) ==
    <<[call |-> IndexOperation(handler), note_id |-> note_id],
      [call |-> "commit", note_id |-> note_id]>>

\* What a note handler that runs to its return does to the note's row and
\* to the index, in the order of its statements: db.commit() of the row
\* change, then one call of its index operation.
HandlerCalls(handler, note_id) ==
    <<[call |-> "commit", note_id |-> note_id],
      [call |-> IndexOperation(handler), note_id |-> note_id]>>

\* create_note up to the await inside rag_service.add_note.
CreateNoteBegin(s, title, content) ==
    /\ ~hung /\ FreeSlot(s)
    /\ LET id == next_note_id
           db_note == [id |-> id, title |-> title, content |-> content]
       IN  /\ notes' = [x \in (DOMAIN notes) \cup {id} |->
                           IF x = id THEN [title |-> title, content |-> content]
                                     ELSE notes[x]]
           /\ next_note_id' = id + 1
           /\ req' = [req EXCEPT ![s] =
                         [pc |-> "add_note", handler |-> "create", note |-> db_note,
                          prev_content |-> content,
                          text |-> NoteText(db_note), deleted |-> {}]]
    /\ resp' = [op |-> "none"]
    /\ ops' = ops + 1
    /\ UNCHANGED <<user_memories, vectors, next_vec_id, clock, hung, recorded>>

\* update_note for an id that has no row: 404.
UpdateNoteNotFound(note_id) ==
    /\ ~hung
    /\ note_id \notin DOMAIN notes
    /\ resp' = [op |-> "update", status |-> 404, note_id |-> note_id]
    /\ ops' = ops + 1
    /\ UNCHANGED <<user_memories, notes, vectors, next_note_id, next_vec_id,
                   req, clock, hung, recorded>>

\* update_note up to the await inside rag_service.add_note: the note row is
\* committed, then rag_service.update_note deletes the note's embeddings
\* without committing.  title and content are Optional.
UpdateNoteBegin(s, note_id, title, content) ==
    /\ ~hung /\ FreeSlot(s)
    /\ note_id \in DOMAIN notes
    /\ LET new_title == IF title # None THEN CHOOSE t \in title : TRUE
                        ELSE notes[note_id].title
           new_content == IF content # None THEN CHOOSE c \in content : TRUE
                          ELSE notes[note_id].content
           db_note == [id |-> note_id, title |-> new_title, content |-> new_content]
           rows == EmbeddingsOf(note_id)
       IN  /\ notes' = [notes EXCEPT ![note_id] =
                           [title |-> new_title, content |-> new_content]]
           /\ IF rows \cap LockedByOthers(s) # {}
              THEN /\ hung' = TRUE
                   /\ req' = req
              ELSE /\ hung' = hung
                   /\ req' = [req EXCEPT ![s] =
                                 [pc |-> "add_note", handler |-> "update",
                                  note |-> db_note,
                                  prev_content |-> notes[note_id].content,
                                  text |-> NoteText(db_note), deleted |-> rows]]
    /\ resp' = [op |-> "none"]
    /\ ops' = ops + 1
    /\ UNCHANGED <<user_memories, vectors, next_note_id, next_vec_id, clock, recorded>>

\* Variant of AddNoteFinish over a table without the foreign key to notes.
AddNoteFinishNoForeignKey(s, embedding) ==
    LET r == req[s]
    IN  IF embedding = None
        THEN /\ vectors' = vectors
             /\ next_vec_id' = next_vec_id
             /\ resp' = [op |-> r.handler, status |-> 200, note |-> r.note,
                         prev_content |-> r.prev_content, embedding |-> embedding,
                         calls |-> HandlerCalls(r.handler, r.note.id)]
        ELSE /\ vectors' = (vectors \ r.deleted) \cup
                              {[id |-> next_vec_id, note_id |-> r.note.id,
                                embedding |-> CHOOSE e \in embedding : TRUE]}
             /\ next_vec_id' = next_vec_id + 1
             /\ resp' = [op |-> r.handler, status |-> 200, note |-> r.note,
                         prev_content |-> r.prev_content, embedding |-> embedding,
                         calls |-> HandlerCalls(r.handler, r.note.id)]

\* Variant of AddNoteFinish in which a failed embedding fails the request.
AddNoteFinishRaises(s, embedding) ==
    LET r == req[s]
        fk_ok == r.note.id \in DOMAIN notes
    IN  IF embedding # None /\ fk_ok
        THEN /\ vectors' = (vectors \ r.deleted) \cup
                              {[id |-> next_vec_id, note_id |-> r.note.id,
                                embedding |-> CHOOSE e \in embedding : TRUE]}
             /\ next_vec_id' = next_vec_id + 1
             /\ resp' = [op |-> r.handler, status |-> 200,
                         note |-> NoteObject(r.note.id),
                         prev_content |-> r.prev_content, embedding |-> embedding,
                         calls |-> HandlerCalls(r.handler, r.note.id)]
        ELSE /\ vectors' = vectors
             /\ next_vec_id' = next_vec_id
             /\ resp' = [op |-> r.handler, status |-> 500, embedding |-> embedding]

\* The rest of add_note once the embedding call has returned, and the
\* return of the create_note / update_note handler that awaited it.
\*   - no embedding: nothing is added or committed; the session is closed and
\*     the DELETE of update_note is rolled back;
\*   - an embedding: a NoteEmbedding is added and db.commit() commits it with
\*     the pending DELETE; the insert fails on the foreign key when the note
\*     row is gone, the handler raises (500) and everything is rolled back.
AddNoteFinish(s, embedding) ==
    LET r == req[s]
        fk_ok == r.note.id \in DOMAIN notes
    IN  IF embedding = None
        THEN /\ vectors' = vectors
             /\ next_vec_id' = next_vec_id
             /\ resp' = [op |-> r.handler, status |-> 200, note |-> r.note,
                         prev_content |-> r.prev_content, embedding |-> embedding,
                         calls |-> HandlerCalls(r.handler, r.note.id)]
        ELSE IF fk_ok
        THEN /\ vectors' = (vectors \ r.deleted) \cup
                              {[id |-> next_vec_id, note_id |-> r.note.id,
                                embedding |-> CHOOSE e \in embedding : TRUE]}
             /\ next_vec_id' = next_vec_id + 1
             /\ resp' = [op |-> r.handler, status |-> 200,
                         note |-> NoteObject(r.note.id),
                         prev_content |-> r.prev_content, embedding |-> embedding,
                         calls |-> HandlerCalls(r.handler, r.note.id)]
        ELSE /\ vectors' = vectors
             /\ next_vec_id' = next_vec_id + 1
             /\ resp' = [op |-> r.handler, status |-> 500, embedding |-> embedding]

AddNoteEmbedDone(s) ==
    /\ ~hung
    /\ req[s].pc = "add_note"
    /\ \E embedding \in get_embedding(req[s].text) : AddNoteFinish(s, embedding)
    /\ req' = [req EXCEPT ![s] = Idle]
    /\ UNCHANGED <<user_memories, notes, next_note_id, clock, hung, recorded, ops>>

\* delete_note for an id that has no row: 404.
DeleteNoteNotFound(note_id) ==
    /\ ~hung
    /\ note_id \notin DOMAIN notes
    /\ resp' = [op |-> "delete", status |-> 404, note_id |-> note_id]
    /\ ops' = ops + 1
    /\ UNCHANGED <<user_memories, notes, vectors, next_note_id, next_vec_id,
                   req, clock, hung, recorded>>

\* delete_note: db.delete(db_note) deletes the note and, by the ORM cascade,
\* the embeddings loaded through Note.embeddings; commit; then
\* rag_service.remove_note deletes by note_id and commits.  No await
\* suspends in between.  The first DELETE waits when another transaction
\* holds one of the rows.
remove_note(vs, note_id) == {v \in vs : v.note_id # note_id}

\* Variant of DeleteNoteRows in which neither deletion filters by note.
DeleteNoteRowsUnfiltered(vs, note_id) == {}

\* The embeddings left once both deletions of delete_note are committed.
DeleteNoteRows(vs, note_id) ==
    remove_note(vs \ {v \in vs : v.note_id = note_id}, note_id)

DeleteNote(note_id) ==
    /\ ~hung
    /\ note_id \in DOMAIN notes
    /\ IF EmbeddingsOf(note_id) \cap (UNION {LockedBy(t) : t \in Slots}) # {}
       THEN /\ hung' = TRUE
            /\ UNCHANGED <<notes, vectors>>
            /\ resp' = [op |-> "none"]
       ELSE /\ hung' = hung
            /\ notes' = [x \in (DOMAIN notes) \ {note_id} |-> notes[x]]
            /\ vectors' = DeleteNoteRows(vectors, note_id)
            /\ resp' = [op |-> "delete", status |-> 200, note_id |-> note_id,
                        calls |-> HandlerCalls("delete", note_id)]
    /\ ops' = ops + 1
    /\ UNCHANGED <<user_memories, next_note_id, next_vec_id, req, clock, recorded>>

-----------------------------------------------------------------------------
(* backend/rag_service.py : retrieval and ask_question.                    *)

NoNotesAnswer ==
    "I don't have any notes to search through. Please add some notes first."

DegradedAnswer == "Sorry, I encountered an error while processing your question."

SystemPrompt ==
    "You are a helpful assistant that answers questions based on provided notes. Be concise and accurate."

\* Variant of JoinRows that reads past the uncommitted deletions of other
\* transactions.
JoinRowsReadUncommitted ==
    {v \in vectors : v.note_id \in DOMAIN notes
                        /\ v \notin UNION {LockedBy(t) : t \in Slots}}

\* FROM notes n JOIN note_embeddings ne ON n.id = ne.note_id
\* (the query reads committed rows only).
JoinRows == {v \in vectors : v.note_id \in DOMAIN notes}

\* ORDER BY ne.embedding <=> query LIMIT k: every order of the k nearest
\* rows the database may return (rows at equal distance come in any order).
RECURSIVE OrderByDistanceLimit(_, _, _)
OrderByDistanceLimit(rows, query_embedding, k) ==
    IF k = 0 \/ rows = {}
    THEN {<<>>}
    ELSE LET nearest == {r \in rows : \A o \in rows :
                            CosineDistance(r.embedding, query_embedding)
                              <= CosineDistance(o.embedding, query_embedding)}
         IN  UNION {{<<r>> \o rest :
                        rest \in OrderByDistanceLimit(rows \ {r}, query_embedding, k - 1)}
                    : r \in nearest}

NoteData(row, query_embedding) ==
    [id |-> row.note_id,
     title |-> notes[row.note_id].title,
     content |-> notes[row.note_id].content,
     similarity |-> 1 - CosineDistance(row.embedding, query_embedding)]

\* Variant of relevant_notes whose query has no LIMIT.
relevant_notes_unlimited(query_embedding, top_k) ==
    IF query_embedding = None
    THEN {<<>>}
    ELSE LET e == CHOOSE x \in query_embedding : TRUE
         IN  {[i \in 1..Len(rows) |-> NoteData(rows[i], e)] :
                 rows \in OrderByDistanceLimit(JoinRows, e, Cardinality(JoinRows))}

\* _get_relevant_notes once the embedding call has returned: the results
\* the query may give.
relevant_notes(query_embedding, top_k) ==
    IF query_embedding = None
    THEN {<<>>}
    ELSE LET e == CHOOSE x \in query_embedding : TRUE
         IN  {[i \in 1..Len(rows) |-> NoteData(rows[i], e)] :
                 rows \in OrderByDistanceLimit(JoinRows, e, top_k)}

\* f"{similarity:.2f}" of a whole number.
Format2f(n) == IF n < 0 THEN "-" \o ToString(0 - n) \o ".00" ELSE ToString(n) \o ".00"

ContextPart(note_data) == "Note '" \o note_data.title \o "': " \o note_data.content

SourceLine(note_data) ==
    "Note " \o ToString(note_data.id) \o ": " \o note_data.title
        \o " (similarity: " \o Format2f(note_data.similarity) \o ")"

\* sources, built in the loop over relevant_notes.
Sources(relevant) == [i \in 1..Len(relevant) |-> SourceLine(relevant[i])]

RECURSIVE PyJoin(_, _)
PyJoin(sep, parts) ==
    IF parts = <<>> THEN ""
    ELSE IF Len(parts) = 1 THEN parts[1]
    ELSE parts[1] \o sep \o PyJoin(sep, Tail(parts))

Context(relevant) ==
    PyJoin("\n\n", [i \in 1..Len(relevant) |-> ContextPart(relevant[i])])

\* role = "user" if msg.__class__.__name__ == "HumanMessage" else "assistant"
MemoryMessage(msg) ==
    [role |-> IF msg.type = "HumanMessage" THEN "user" ELSE "assistant",
     content |-> msg.content]

QuestionPrompt(question, context) ==
    "Based on the following notes, please answer the question: '" \o question
        \o "'\n\nNotes:\n" \o context
        \o "\n\nPlease provide a helpful answer based on the information in the notes. If the answer cannot be found in the notes, please say so clearly."

\* Variant of Messages that takes the whole recent context.
MessagesWholeContext(recent_context, question, context) ==
    <<[role |-> "system", content |-> SystemPrompt]>>
        \o [i \in 1..Len(recent_context) |-> MemoryMessage(recent_context[i])]
        \o <<[role |-> "user", content |-> QuestionPrompt(question, context)]>>

\* messages, as ask_question hands them to generate_response.
Messages(recent_context, question, context) ==
    LET last4 == PySliceFrom(recent_context, -4)
    IN  <<[role |-> "system", content |-> SystemPrompt]>>
        \o [i \in 1..Len(last4) |-> MemoryMessage(last4[i])]
        \o <<[role |-> "user", content |-> QuestionPrompt(question, context)]>>

\* ask_question up to the await of the question's embedding.
AskBegin(s, question, u) ==
    /\ ~hung /\ FreeSlot(s)
    /\ req' = [req EXCEPT ![s] =
                  [pc |-> "ask_embed", question |-> question, user |-> u]]
    /\ resp' = [op |-> "none"]
    /\ ops' = ops + 1
    /\ UNCHANGED <<user_memories, notes, vectors, next_note_id, next_vec_id,
                   clock, hung, recorded>>

\* Variant of AskRetrieve without the check for an empty retrieval.
AskRetrieveUnchecked(s, query_embedding, relevant) ==
    LET r == req[s]
    IN  /\ resp' = [op |-> "none"]
        /\ user_memories' = get_user_memory(user_memories, r.user)
        /\ req' = [req EXCEPT ![s] =
                      [pc |-> "ask_generate", question |-> r.question,
                       user |-> r.user, relevant_notes |-> relevant,
                       sources |-> Sources(relevant),
                       messages |-> Messages(get_recent_context(user_memories, r.user),
                                             r.question, Context(relevant))]]

\* From the return of the embedding call to the await of generate_response,
\* or to the canned answer when nothing was retrieved: no embedding of the
\* question, or no row in the join.
AskRetrieve(s, query_embedding, relevant) ==
    LET r == req[s]
    IN  IF relevant = <<>>
        THEN /\ resp' = [op |-> "ask", status |-> 200, user |-> r.user,
                         question |-> r.question, answer |-> NoNotesAnswer,
                         sources |-> <<>>, relevant_notes |-> relevant,
                         embedding |-> [invoked |-> TRUE, result |-> query_embedding],
                         generation |-> [invoked |-> FALSE, result |-> None]]
             /\ req' = [req EXCEPT ![s] = Idle]
             /\ user_memories' = user_memories
        ELSE /\ resp' = [op |-> "none"]
             /\ user_memories' = get_user_memory(user_memories, r.user)
             /\ req' = [req EXCEPT ![s] =
                           [pc |-> "ask_generate", question |-> r.question,
                            user |-> r.user, relevant_notes |-> relevant,
                            sources |-> Sources(relevant),
                            messages |-> Messages(get_recent_context(user_memories, r.user),
                                                  r.question, Context(relevant))]]

AskEmbedDone(s) ==
    /\ ~hung
    /\ req[s].pc = "ask_embed"
    /\ \E query_embedding \in get_embedding(<<req[s].question>>) :
          \E relevant \in relevant_notes(query_embedding, TopK) :
             AskRetrieve(s, query_embedding, relevant)
    /\ UNCHANGED <<notes, vectors, next_note_id, next_vec_id, clock, hung,
                   recorded, ops>>

\* Variant of StoreExchange that records the question and loses the answer.
StoreExchangeQuestionOnly(um, u, question, answer, now) ==
    add_message(um, u, question, TRUE, "default", now)

\* Variant of StoreExchange that records the answer before the question.
StoreExchangeAnswerFirst(um, u, question, answer, now) ==
    add_message(add_message(um, u, answer, FALSE, "default", now),
                u, question, TRUE, "default", now)

\* The two add_message calls of a successful exchange.
StoreExchange(um, u, question, answer, now) ==
    add_message(add_message(um, u, question, TRUE, "default", now),
                u, answer, FALSE, "default", now)

\* Variant of AskAnswer that records the question before it looks at the
\* answer.
AskAnswerQuestionFirst(s, answer) ==
    LET r == req[s]
        um1 == add_message(user_memories, r.user, r.question, TRUE, "default", clock)
    IN  IF answer # None /\ answer # Some("")
        THEN LET a == CHOOSE x \in answer : TRUE
             IN  /\ user_memories' = add_message(um1, r.user, a, FALSE, "default", clock)
                 /\ recorded' = [recorded EXCEPT ![r.user] =
                                    @ \o <<Turn("default", clock, r.question, TRUE),
                                           Turn("default", clock, a, FALSE)>>]
                 /\ resp' = [op |-> "ask", status |-> 200, user |-> r.user,
                             question |-> r.question, answer |-> a,
                             sources |-> r.sources,
                             relevant_notes |-> r.relevant_notes,
                             messages |-> r.messages,
                             generation |-> [invoked |-> TRUE, result |-> answer]]
        ELSE /\ user_memories' = um1
             /\ recorded' = [recorded EXCEPT ![r.user] =
                                Append(@, Turn("default", clock, r.question, TRUE))]
             /\ resp' = [op |-> "ask", status |-> 200, user |-> r.user,
                         question |-> r.question, answer |-> DegradedAnswer,
                         sources |-> <<>>, relevant_notes |-> r.relevant_notes,
                         generation |-> [invoked |-> TRUE, result |-> answer]]

\* The rest of ask_question once generate_response has returned.
AskAnswer(s, answer) ==
    LET r == req[s]
    IN  IF answer # None /\ answer # Some("")
        THEN LET a == CHOOSE x \in answer : TRUE
             IN  /\ user_memories' = StoreExchange(user_memories, r.user,
                                                   r.question, a, clock)
                 /\ recorded' = [recorded EXCEPT ![r.user] =
                                    @ \o <<Turn("default", clock, r.question, TRUE),
                                           Turn("default", clock, a, FALSE)>>]
                 /\ resp' = [op |-> "ask", status |-> 200, user |-> r.user,
                             question |-> r.question, answer |-> a,
                             sources |-> r.sources,
                             relevant_notes |-> r.relevant_notes,
                             messages |-> r.messages,
                             generation |-> [invoked |-> TRUE, result |-> answer]]
        ELSE /\ user_memories' = user_memories
             /\ recorded' = recorded
             /\ resp' = [op |-> "ask", status |-> 200, user |-> r.user,
                         question |-> r.question, answer |-> DegradedAnswer,
                         sources |-> <<>>, relevant_notes |-> r.relevant_notes,
                         generation |-> [invoked |-> TRUE, result |-> answer]]

AskGenDone(s) ==
    /\ ~hung
    /\ req[s].pc = "ask_generate"
    /\ \E answer \in generate_response(req[s].messages) : AskAnswer(s, answer)
    /\ req' = [req EXCEPT ![s] = Idle]
    /\ UNCHANGED <<notes, vectors, next_note_id, next_vec_id, clock, hung, ops>>

\* Variant of AskFault in which ask_question catches the exception and
\* answers as it does for a failed generation.
AskFaultAnswered(s) ==
    LET r == req[s]
    IN  /\ resp' = [op |-> "ask", status |-> 200, user |-> r.user,
                    question |-> r.question, answer |-> DegradedAnswer,
                    sources |-> <<>>, fault |-> "query"]
        /\ req' = [req EXCEPT ![s] = Idle]
        /\ user_memories' = user_memories

\* An exception leaves rag_service.ask_question: the endpoint turns it into
\* HTTPException(500, "Error processing question: ...").
AskFault(s) ==
    LET r == req[s]
    IN  /\ resp' = [op |-> "ask", status |-> 500, user |-> r.user,
                    question |-> r.question,
                    detail |-> <<"Error processing question", "query failed">>,
                    fault |-> "query"]
        /\ req' = [req EXCEPT ![s] = Idle]
        /\ user_memories' = user_memories

\* The question was embedded and db.execute of the similarity query raises
\* (the database is unreachable, the statement fails): the exception
\* leaves _get_relevant_notes and ask_question, which have no handler
\* around the query.
AskQueryFails(s) ==
    /\ ~hung
    /\ req[s].pc = "ask_embed"
    /\ Some(embed_query(<<req[s].question>>)) \in get_embedding(<<req[s].question>>)
    /\ AskFault(s)
    /\ UNCHANGED <<notes, vectors, next_note_id, next_vec_id, clock, hung,
                   recorded, ops>>

\* Variant of AskCancelled in which the question had been recorded before
\* the request waited.
AskCancelledKeepsQuestion(s) ==
    LET r == req[s]
    IN  /\ resp' = [op |-> "ask_cancelled", user |-> r.user,
                    question |-> r.question, at |-> r.pc]
        /\ req' = [req EXCEPT ![s] = Idle]
        /\ user_memories' = add_message(user_memories, r.user, r.question,
                                        TRUE, "default", clock)

\* The task of an ask_question request is cancelled while it waits:
\* CancelledError is raised at the await, no statement after it runs and
\* no answer is returned.
AskCancelled(s) ==
    LET r == req[s]
    IN  /\ resp' = [op |-> "ask_cancelled", user |-> r.user,
                    question |-> r.question, at |-> r.pc]
        /\ req' = [req EXCEPT ![s] = Idle]
        /\ user_memories' = user_memories

\* An ask_question request is cancelled or abandoned at one of its awaits:
\* the embedding call (followed at once by the query) or the generation
\* call.
AskCancel(s) ==
    /\ ~hung
    /\ req[s].pc \in {"ask_embed", "ask_generate"}
    /\ AskCancelled(s)
    /\ UNCHANGED <<notes, vectors, next_note_id, next_vec_id, clock, hung,
                   recorded, ops>>

\* A call of _get_relevant_notes(query, db, top_k) that no other request
\* overlaps: the embedding call, then the similarity query.
GetRelevantNotes(query, top_k) ==
    /\ ~hung
    /\ \E query_embedding \in get_embedding(<<query>>) :
          \E relevant \in relevant_notes(query_embedding, top_k) :
             resp' = [op |-> "search", query |-> query, top_k |-> top_k,
                      query_embedding |-> query_embedding, value |-> relevant]
    /\ ops' = ops + 1
    /\ UNCHANGED <<user_memories, notes, vectors, next_note_id, next_vec_id,
                   req, clock, hung, recorded>>

-----------------------------------------------------------------------------
(* Calls of the ConversationManager API.  Each is one synchronous call: it *)
(* runs to completion on the event loop.                                   *)

dbvars == <<notes, vectors, next_note_id, next_vec_id, req, hung>>

MemAddMessage(u, message, is_user, conversation_id) ==
    /\ ~hung
    /\ user_memories' = add_message(user_memories, u, message, is_user,
                                    conversation_id, clock)
    /\ recorded' = [recorded EXCEPT
                      ![u] = Append(@, Turn(conversation_id, clock, message, is_user))]
    /\ resp' = [op |-> "add_message", user |-> u]
    /\ ops' = ops + 1
    /\ UNCHANGED <<dbvars, clock>>

MemGetConversationHistory(u, conversation_id, limit) ==
    /\ ~hung
    /\ user_memories' = get_user_memory(user_memories, u)
    /\ resp' = [op |-> "history", user |-> u,
                conversation_id |-> conversation_id, limit |-> limit,
                value |-> get_conversation_history(user_memories, u,
                                                   conversation_id, limit)]
    /\ ops' = ops + 1
    /\ UNCHANGED <<dbvars, clock, recorded>>

MemGetRecentContext(u) ==
    /\ ~hung
    /\ user_memories' = get_user_memory(user_memories, u)
    /\ resp' = [op |-> "recent_context", user |-> u,
                value |-> get_recent_context(user_memories, u)]
    /\ ops' = ops + 1
    /\ UNCHANGED <<dbvars, clock, recorded>>

MemGetConversationStats(u) ==
    /\ ~hung
    /\ user_memories' = get_user_memory(user_memories, u)
    /\ resp' = [op |-> "stats", user |-> u,
                value |-> get_conversation_stats(user_memories, u)]
    /\ ops' = ops + 1
    /\ UNCHANGED <<dbvars, clock, recorded>>

MemUpdateUserContext(u, context) ==
    /\ ~hung
    /\ user_memories' = update_user_context(user_memories, u, context)
    /\ resp' = [op |-> "update_context", user |-> u]
    /\ ops' = ops + 1
    /\ UNCHANGED <<dbvars, clock, recorded>>

MemGetUserContext(u) ==
    /\ ~hung
    /\ user_memories' = get_user_memory(user_memories, u)
    /\ resp' = [op |-> "user_context", user |-> u,
                value |-> get_user_context(user_memories, u)]
    /\ ops' = ops + 1
    /\ UNCHANGED <<dbvars, clock, recorded>>

\* get_summary_context(u): the exception of a failed generation call leaves
\* the method, which has no handler.
MemGetSummaryContext(u) ==
    /\ ~hung
    /\ user_memories' = get_user_memory(user_memories, u)
    /\ LET handed == get_summary_context(user_memories, u)
       IN  \E result \in predict_new_summary(handed.messages, handed.existing_summary) :
              resp' = [op |-> "summary", user |-> u, handed |-> handed,
                       generation |-> [invoked |-> TRUE, result |-> result],
                       raised |-> (result = None), value |-> result]
    /\ ops' = ops + 1
    /\ UNCHANGED <<dbvars, clock, recorded>>

MemExportUserData(u) ==
    /\ ~hung
    /\ user_memories' = get_user_memory(user_memories, u)
    /\ resp' = [op |-> "export", user |-> u,
                value |-> export_user_data(user_memories, u, clock)]
    /\ ops' = ops + 1
    /\ UNCHANGED <<dbvars, clock, recorded>>

MemClearUserMemory(u) ==
    /\ ~hung
    /\ user_memories' = clear_user_memory(user_memories, u)
    /\ recorded' = [recorded EXCEPT ![u] = <<>>]
    /\ resp' = [op |-> "clear", user |-> u,
                destroyed |-> IF u \in DOMAIN user_memories
                              THEN Len(user_memories[u].buffer_memory)
                              ELSE 0]
    /\ ops' = ops + 1
    /\ UNCHANGED <<dbvars, clock>>

\* datetime.utcnow() follows the system clock, which may be stepped either way.
ClockStep ==
    /\ ~hung
    /\ \E t \in 0..MaxClock : t # clock /\ clock' = t
    /\ resp' = [op |-> "none"]
    /\ UNCHANGED <<user_memories, dbvars, recorded, ops>>

-----------------------------------------------------------------------------
(* State after construction: RAGService() has built an empty               *)
(* ConversationManager, create_tables() has created empty tables.          *)

Init ==
    /\ user_memories = <<>>
    /\ notes = <<>>
    /\ vectors = {}
    /\ next_note_id = 1
    /\ next_vec_id = 1
    /\ req = [s \in Slots |-> Idle]
    /\ clock = 0
    /\ hung = FALSE
    /\ resp = [op |-> "none"]
    /\ recorded = [u \in Users |-> <<>>]
    /\ ops = 0

-----------------------------------------------------------------------------
(* Spec: the HTTP API.  Requests start while the budget MaxOps lasts; a    *)
(* request suspended at an await resumes at any later time.                *)

KnownNoteIds == 1..(next_note_id - 1)

Next ==
    \/ /\ ops < MaxOps
       /\ \E s \in Slots, t \in Titles, c \in Contents : CreateNoteBegin(s, t, c)
    \/ /\ ops < MaxOps
       /\ \E s \in Slots, id \in KnownNoteIds :
             \E t \in {None} \cup {Some(x) : x \in Titles},
                c \in {None} \cup {Some(x) : x \in Contents} :
                UpdateNoteBegin(s, id, t, c)
    \/ /\ ops < MaxOps
       /\ \E id \in KnownNoteIds : UpdateNoteNotFound(id)
    \/ \E s \in Slots : AddNoteEmbedDone(s)
    \/ /\ ops < MaxOps
       /\ \E id \in KnownNoteIds : DeleteNote(id)
    \/ /\ ops < MaxOps
       /\ \E id \in KnownNoteIds : DeleteNoteNotFound(id)
    \/ /\ ops < MaxOps
       /\ \E s \in Slots, q \in Questions, u \in Users : AskBegin(s, q, u)
    \/ \E s \in Slots : AskEmbedDone(s)
    \/ \E s \in Slots : AskGenDone(s)
    \/ /\ ops < MaxOps
       /\ \E u \in Users : MemClearUserMemory(u)

Spec == Init /\ [][Next]_vars

\* SpecSeq: the same API used by a client that waits for each response
\* before it sends the next request, so that no two requests overlap.
Quiet == \A s \in Slots : ~Busy(s)

NextSeq ==
    \/ /\ ops < MaxOps /\ Quiet
       /\ \E t \in Titles, c \in Contents : CreateNoteBegin(1, t, c)
    \/ /\ ops < MaxOps /\ Quiet
       /\ \E id \in KnownNoteIds :
             \E t \in {None} \cup {Some(x) : x \in Titles},
                c \in {None} \cup {Some(x) : x \in Contents} :
                UpdateNoteBegin(1, id, t, c)
    \/ /\ ops < MaxOps /\ Quiet
       /\ \E id \in KnownNoteIds : UpdateNoteNotFound(id)
    \/ AddNoteEmbedDone(1)
    \/ /\ ops < MaxOps /\ Quiet
       /\ \E id \in KnownNoteIds : DeleteNote(id)
    \/ /\ ops < MaxOps /\ Quiet
       /\ \E id \in KnownNoteIds : DeleteNoteNotFound(id)
    \/ /\ ops < MaxOps /\ Quiet
       /\ \E q \in Questions, u \in Users : AskBegin(1, q, u)
    \/ AskEmbedDone(1)
    \/ AskGenDone(1)
    \/ /\ ops < MaxOps /\ Quiet
       /\ \E u \in Users : MemClearUserMemory(u)

SpecSeq == Init /\ [][NextSeq]_vars

-----------------------------------------------------------------------------
(* SpecMgr: direct calls of the ConversationManager API.                   *)

NextMgr ==
    \/ /\ ops < MgrOps
       /\ \E u \in Users, m \in Texts, is_user \in BOOLEAN, c \in ConvIds :
             MemAddMessage(u, m, is_user, c)
    \/ /\ ops < MgrOps
       /\ \E u \in Users, c \in ConvIds, limit \in Limits :
             MemGetConversationHistory(u, c, limit)
    \/ /\ ops < MgrOps
       /\ \E u \in Users : MemGetRecentContext(u)
    \/ /\ ops < MgrOps
       /\ \E u \in Users : MemGetConversationStats(u)
    \/ /\ ops < MgrOps
       /\ \E u \in Users, k \in CtxKeys, v \in CtxVals :
             MemUpdateUserContext(u, [x \in {k} |-> v])
    \/ /\ ops < MgrOps
       /\ \E u \in Users : MemGetUserContext(u)
    \/ /\ ops < MgrOps
       /\ \E u \in Users : MemExportUserData(u)
    \/ /\ ops < MgrOps
       /\ \E u \in Users : MemClearUserMemory(u)
    \/ ClockStep

SpecMgr == Init /\ [][NextMgr]_vars

-----------------------------------------------------------------------------
(* SpecMem: long runs of one user's memory.  The first WarmUp calls record *)
(* numbered user turns of the default conversation, which brings the log   *)
(* to the edge of its retention cap; the next FreeCalls calls are          *)
(* arbitrary.                                                              *)

WarmUp == MaxConversations - 1

NextMem ==
    \/ /\ ops < WarmUp
       /\ MemAddMessage("u1", ToString(ops + 1), TRUE, "default")
    \/ /\ WarmUp <= ops /\ ops < WarmUp + FreeCalls
       /\ \E is_user \in BOOLEAN, c \in ConvIds :
             MemAddMessage("u1", ToString(ops + 1), is_user, c)
    \/ /\ WarmUp <= ops /\ ops < WarmUp + FreeCalls
       /\ MemClearUserMemory("u1")
    \/ /\ WarmUp <= ops /\ ops < WarmUp + FreeCalls
       /\ MemGetRecentContext("u1")

SpecMem == Init /\ [][NextMem]_vars

-----------------------------------------------------------------------------
(* SpecFault: the API used by one client at a time, over a database whose  *)
(* similarity query may fail.                                              *)

NextFault ==
    \/ NextSeq
    \/ AskQueryFails(1)

SpecFault == Init /\ [][NextFault]_vars

-----------------------------------------------------------------------------
(* SpecPrompt: questions asked by one client at a time over an index built *)
(* by creations, by users whose memory also receives turns directly.       *)

NextPrompt ==
    \/ /\ ops < PromptOps /\ Quiet
       /\ \E t \in Titles, c \in Contents : CreateNoteBegin(1, t, c)
    \/ AddNoteEmbedDone(1)
    \/ /\ ops < PromptOps /\ Quiet
       /\ \E u \in Users, m \in Texts, is_user \in BOOLEAN :
             MemAddMessage(u, m, is_user, "default")
    \/ /\ ops < PromptOps /\ Quiet
       /\ \E q \in Questions, u \in Users : AskBegin(1, q, u)
    \/ AskEmbedDone(1)
    \/ AskGenDone(1)

SpecPrompt == Init /\ [][NextPrompt]_vars

-----------------------------------------------------------------------------
(* SpecCancel: the HTTP API with clients that may abandon a question       *)
(* while it is being answered.                                             *)

NextCancel ==
    \/ Next
    \/ \E s \in Slots : AskCancel(s)

SpecCancel == Init /\ [][NextCancel]_vars

-----------------------------------------------------------------------------
(* SpecSummary: turns are recorded for users, whose summary is asked for.  *)

NextSummary ==
    \/ /\ ops < SummaryOps
       /\ \E u \in Users, m \in Texts, is_user \in BOOLEAN, c \in ConvIds :
             MemAddMessage(u, m, is_user, c)
    \/ /\ ops < SummaryOps
       /\ \E u \in Users : MemGetSummaryContext(u)
    \/ /\ ops < SummaryOps
       /\ \E u \in Users : MemClearUserMemory(u)

SpecSummary == Init /\ [][NextSummary]_vars

-----------------------------------------------------------------------------
(* SpecSearch: the index is built and taken down by requests that do not   *)
(* overlap, and _get_relevant_notes is called on it with any top_k.        *)

NextSearch ==
    \/ /\ ops < SearchOps /\ Quiet
       /\ \E t \in Titles, c \in Contents : CreateNoteBegin(1, t, c)
    \/ AddNoteEmbedDone(1)
    \/ /\ ops < SearchOps /\ Quiet
       /\ \E id \in KnownNoteIds : DeleteNote(id)
    \/ /\ ops < SearchOps /\ Quiet
       /\ \E q \in Questions, top_k \in TopKs : GetRelevantNotes(q, top_k)

SpecSearch == Init /\ [][NextSearch]_vars

-----------------------------------------------------------------------------
(* Properties.                                                             *)

\* What a user's memory holds, read without creating it.
LogIn(um, u) == IF u \in DOMAIN um THEN um[u].conversations ELSE <<>>

Log(u) == LogIn(user_memories, u)

Window(u) == IF u \in DOMAIN user_memories THEN user_memories[u].buffer_memory ELSE <<>>

ContextMap(u) == IF u \in DOMAIN user_memories THEN user_memories[u].context ELSE <<>>

\* The last k elements of s, or all of s when it has fewer.
LastN(s, k) ==
    LET drop == IF Len(s) > k THEN Len(s) - k ELSE 0
    IN  [i \in 1..(Len(s) - drop) |-> s[drop + i]]

\* C1: for every user, whatever has been recorded, get_recent_context
\* returns at most W entries, W = 10 being the capacity the window is
\* configured with.
C1_WindowWithinCapacity ==
    \A u \in Users : Len(get_recent_context(user_memories, u)) <= WindowK

\* C2: for every user the log holds at most 100 turns, and they are the
\* last 100 turns recorded (all of them while there are no more than 100),
\* in the order they were recorded.
C2_LogKeepsLast100 ==
    \A u \in Users :
        /\ Len(Log(u)) <= 100
        /\ Log(u) = LastN(recorded[u], 100)

\* More than 100 turns were recorded for a user, the oldest are gone.
C2_Witness ==
    /\ Len(recorded["u1"]) > 100
    /\ Len(Log("u1")) = 100
    /\ Log("u1")[1] # recorded["u1"][1]

\* No user's log or recency window differs between the two states of a step.
MemoryUntouched ==
    \A u \in Users : Log(u)' = Log(u) /\ Window(u)' = Window(u)

\* Generation was invoked and failed: it raised (None) or returned no text.
GenerationFailed(r) ==
    /\ r.op = "ask"
    /\ r.generation.invoked
    /\ r.generation.result \in {None, Some("")}

GenerationSucceeded(r) ==
    /\ r.op = "ask"
    /\ r.generation.invoked
    /\ r.generation.result \notin {None, Some("")}

\* s takes a step of an ask_question request.
AskStep(s) ==
    /\ req'[s] # req[s]
    /\ req[s].pc \in {"ask_embed", "ask_generate"}
          \/ req'[s].pc \in {"ask_embed", "ask_generate"}

\* C3: when generation fails during ask_question, the request returns the
\* degraded answer with no sources, and no step of the request has changed
\* any user's log or recency window: every step of an ask_question request
\* other than the return of a successful generation leaves them as they
\* were.
C3_FailedGenerationKeepsMemory ==
    [][ /\ GenerationFailed(resp') =>
              /\ resp'.answer = DegradedAnswer
              /\ resp'.sources = <<>>
              /\ MemoryUntouched
        /\ \A s \in Slots :
              (AskStep(s) /\ ~GenerationSucceeded(resp')) => MemoryUntouched
      ]_vars

\* A failed generation has been answered for a user who has turns in memory.
C3_Witness ==
    /\ GenerationFailed(resp)
    /\ resp.answer = DegradedAnswer
    /\ Len(Log(resp.user)) = 2

\* C4: when the vector store holds no vectors at the time ask_question
\* queries it, the request returns the canned "no notes" answer with no
\* sources, it ends there without invoking generation, and memory is as it
\* was.
C4_EmptyStoreCannedAnswer ==
    [][ \A s \in Slots :
           (req[s].pc = "ask_embed" /\ req'[s] # req[s] /\ vectors = {}) =>
              /\ resp'.op = "ask"
              /\ resp'.answer = NoNotesAnswer
              /\ resp'.sources = <<>>
              /\ ~resp'.generation.invoked
              /\ req'[s].pc = "idle"
              /\ user_memories' = user_memories
      ]_vars

\* The canned answer was given while notes exist and none has a vector.
C4_Witness ==
    /\ resp.op = "ask"
    /\ resp.answer = NoNotesAnswer
    /\ vectors = {}
    /\ DOMAIN notes # {}

\* C5: when ask_question succeeds, the user's log gains exactly two turns
\* at its end, the question as a user turn and right after it the answer as
\* an assistant turn (the log keeping its last 100), and the sources
\* returned are one line per retrieved note, in the order of the retrieval.
C5_SuccessRecordsExchange ==
    [][ GenerationSucceeded(resp') =>
           LET u == resp'.user
               a == CHOOSE x \in resp'.generation.result : TRUE
               new == LogIn(user_memories', u)
               n == Len(new)
           IN  /\ resp'.answer = a
               /\ n >= 2
               /\ SubSeq(new, 1, n - 2) = LastN(Log(u), 98)
               /\ new[n - 1].message = resp'.question /\ new[n - 1].is_user
               /\ new[n].message = a /\ ~new[n].is_user
               /\ new[n - 1].id = "default" /\ new[n].id = "default"
               /\ Len(resp'.sources) = Len(resp'.relevant_notes)
               /\ Len(resp'.sources) >= 1
               /\ \A i \in 1..Len(resp'.sources) :
                     resp'.sources[i] = SourceLine(resp'.relevant_notes[i])
      ]_vars

\* A successful answer drew on two notes and left its two turns in the log.
C5_Witness ==
    /\ GenerationSucceeded(resp)
    /\ Len(resp.sources) = 2
    /\ resp.relevant_notes[1].id # resp.relevant_notes[2].id
    /\ Len(Log(resp.user)) = 2

\* C6: once an update that changed a note's content has returned, the
\* index holds no vector computed from the note's previous content,
\* whether or not the embedding call of the update succeeded.
C6_NoStaleVector ==
    (resp.op = "update" /\ resp.status = 200
        /\ resp.note.content # resp.prev_content) =>
        \A v \in vectors :
            v.note_id = resp.note.id =>
                \A t \in Titles : v.embedding # embed_query(<<t, resp.prev_content>>)

\* C7: a completed deletion leaves no vector for the note's id, lowers the
\* number of vectors by exactly the number the note had, and leaves every
\* other note's vectors as they were.
C7_DeleteRemovesOnlyItsVectors ==
    [][ (resp'.op = "delete" /\ resp'.status = 200) =>
           LET id == resp'.note_id
           IN  /\ \A v \in vectors' : v.note_id # id
               /\ Cardinality(vectors') =
                     Cardinality(vectors) - Cardinality({v \in vectors : v.note_id = id})
               /\ \A v \in vectors : v.note_id # id => v \in vectors'
               /\ vectors' \subseteq vectors
      ]_vars

\* A note that had a vector was deleted and another note's vector remains.
C7_Witness ==
    /\ resp.op = "delete" /\ resp.status = 200
    /\ Cardinality(vectors) = 1
    /\ next_vec_id = 3

\* C8: clear_user_memory(u) followed by reads yields what a user never
\* seen yields: zero stats with no last activity, an empty history for
\* every conversation and limit, an empty recency window and an empty
\* context map; the same holds of the reads that follow the first one.
NeverSeen == <<>>

ReadsOf(um, u) ==
    [stats   |-> get_conversation_stats(um, u),
     history |-> [c \in ConvIds |-> [l \in Limits |->
                     get_conversation_history(um, u, c, l)]],
     recent  |-> get_recent_context(um, u),
     context |-> get_user_context(um, u)]

C8_ClearIsNeverSeen ==
    resp.op = "clear" =>
        LET u == resp.user
        IN  /\ ReadsOf(user_memories, u) = ReadsOf(NeverSeen, u)
            /\ ReadsOf(get_user_memory(user_memories, u), u) = ReadsOf(NeverSeen, u)
            /\ get_conversation_stats(user_memories, u) =
                  [total_messages |-> 0, conversations |-> 0, last_activity |-> None]
            /\ Log(u) = <<>> /\ Window(u) = <<>> /\ ContextMap(u) = <<>>

\* A clear has destroyed the state of a user who had recorded turns.
C8_Witness == resp.op = "clear" /\ resp.destroyed > 0

\* C9: in every state, for every user, get_conversation_stats returns the
\* number of turns in the log, the number of distinct conversation ids
\* among them, and a last activity that is null exactly when the log is
\* empty and otherwise the greatest timestamp in the log; and that is what
\* a stats call has just returned.
StatsAgree(st, log) ==
    LET n == Len(log)
    IN  /\ st.total_messages = n
        /\ st.conversations = Cardinality({log[i].id : i \in 1..n})
        /\ (st.last_activity = None) <=> (n = 0)
        /\ n > 0 => \E t \in st.last_activity :
                       /\ \E i \in 1..n : log[i].timestamp = t
                       /\ \A i \in 1..n : log[i].timestamp <= t

C9_StatsMatchLog ==
    /\ \A u \in Users : StatsAgree(get_conversation_stats(user_memories, u), Log(u))
    /\ resp.op = "stats" => StatsAgree(resp.value, Log(resp.user))

\* A stats call over two conversations whose latest turn is not the last one.
C9_Witness ==
    /\ resp.op = "stats"
    /\ resp.value.conversations = 2
    /\ resp.value.last_activity # Some(Log(resp.user)[Len(Log(resp.user))].timestamp)

\* C10: for every user, conversation id and limit >= 0 (0 included),
\* get_conversation_history returns at most limit entries: the last
\* min(limit, m) of the m turns of the log with that conversation id, in
\* the order of the log.
Matching(log, conversation_id) == SelectSeq(log, LAMBDA c : c.id = conversation_id)

C10_HistoryLastLimit ==
    resp.op = "history" =>
        /\ Len(resp.value) <= resp.limit
        /\ resp.value = LastN(Matching(Log(resp.user), resp.conversation_id), resp.limit)

\* C11: for any index content and any top_k >= 1, the similarity search
\* for an embedded query returns min(top_k, n) results, n being the number
\* of stored vectors joined to a live note, in order of non-increasing
\* similarity; over an empty store it returns the empty sequence.
PyMin(a, b) == IF a < b THEN a ELSE b

C11_SearchTopKOrdered ==
    (resp.op = "search" /\ resp.query_embedding # None /\ resp.top_k >= 1) =>
        /\ Len(resp.value) = PyMin(resp.top_k, Cardinality(JoinRows))
        /\ \A i \in 1..(Len(resp.value) - 1) :
              resp.value[i].similarity >= resp.value[i + 1].similarity
        /\ vectors = {} => resp.value = <<>>

\* A search with top_k = 2 over three vectors returned the two nearest.
C11_Witness ==
    /\ resp.op = "search" /\ resp.top_k = 2
    /\ Cardinality(JoinRows) = 3
    /\ Len(resp.value) = 2
    /\ resp.value[1].similarity > resp.value[2].similarity

\* C12: when the embedding of the question fails during ask_question while
\* the store holds vectors, the request returns an answer other than the
\* "no notes" answer of an empty store, with no sources, generation is not
\* invoked and memory is as it was.
C12_EmbeddingFailureDegradedAnswer ==
    [][ \A s \in Slots :
           (req[s].pc = "ask_embed" /\ req'[s] # req[s] /\ JoinRows # {}
               /\ resp'.op = "ask" /\ resp'.embedding.result = None) =>
              /\ resp'.answer # NoNotesAnswer
              /\ resp'.sources = <<>>
              /\ ~resp'.generation.invoked
              /\ user_memories' = user_memories
      ]_vars

\* C13: when the embedding call fails during the creation or the update of
\* a note, the request returns the created or updated note (status 200),
\* the note's row holds what was returned, so later reads see it, and the
\* index is as it was: it gained no vector for the note.
C13_EmbeddingFailureKeepsNote ==
    [][ (resp'.op \in {"create", "update"} /\ resp'.status # 404
            /\ resp'.embedding = None) =>
           /\ resp'.status = 200
           /\ resp'.note.id \in DOMAIN notes'
           /\ notes'[resp'.note.id] =
                 [title |-> resp'.note.title, content |-> resp'.note.content]
           /\ vectors' = vectors
      ]_vars

\* An update changed a note's content while the embedding call failed.
C13_Witness ==
    /\ resp.op = "update" /\ resp.status = 200
    /\ resp.embedding = None
    /\ resp.note.content # resp.prev_content
    /\ notes[resp.note.id].content = resp.note.content

\* C14: when ask_question raises (the similarity query fails), the ask
\* endpoint answers with status 500 and the detail "Error processing
\* question", and no step of that request, from its start to the error,
\* has changed the conversation memory.
C14_UnexpectedFaultIs500 ==
    [][ /\ (resp'.op = "ask" /\ "fault" \in DOMAIN resp') =>
              /\ resp'.status = 500
              /\ resp'.detail[1] = "Error processing question"
              /\ user_memories' = user_memories
        /\ \A s \in Slots :
              (req[s].pc = "idle" /\ req'[s].pc = "ask_embed") =>
                 user_memories' = user_memories
      ]_vars

\* The query failed for a user who has turns in memory, while the store
\* holds a vector.
C14_Witness ==
    /\ resp.op = "ask" /\ resp.status = 500
    /\ Len(Log(resp.user)) = 2
    /\ vectors # {}

\* C15: every successful create, update or delete of a note has committed
\* the note's row change and then called its index operation (add_note,
\* update_note, remove_note respectively) exactly once, for that note's id;
\* when the index operation of a create or update starts waiting for its
\* embedding, the row change is already committed, and when a delete
\* returns the row is gone.
HandledNote(r) == IF r.op = "delete" THEN r.note_id ELSE r.note.id

ManagerOps ==
    {"add_message", "history", "recent_context", "stats", "update_context",
     "user_context", "export", "clear"}

EmptyStats == [total_messages |-> 0, conversations |-> 0, last_activity |-> None]

C16_UnknownUserLazilyCreated ==
    [][ (resp'.op \in ManagerOps /\ resp'.user \notin DOMAIN user_memories) =>
           LET u == resp'.user
               op == resp'.op
           IN  IF op = "clear"
               THEN user_memories' = user_memories
               ELSE /\ DOMAIN user_memories' = (DOMAIN user_memories) \cup {u}
                    /\ \A x \in DOMAIN user_memories : user_memories'[x] = user_memories[x]
                    /\ op \in {"history", "recent_context", "stats", "user_context", "export"}
                          => user_memories'[u] = FreshMemory
                    /\ op \in {"history", "recent_context", "user_context"}
                          => resp'.value = <<>>
                    /\ op = "stats" => resp'.value = EmptyStats
                    /\ op = "export" =>
                          /\ resp'.value.user_id = u
                          /\ resp'.value.conversations = <<>>
                          /\ resp'.value.context = <<>>
                          /\ resp'.value.stats = EmptyStats
                    /\ op = "add_message" =>
                          /\ Len(user_memories'[u].conversations) = 1
                          /\ user_memories'[u].context = <<>>
                    /\ op = "update_context" =>
                          /\ user_memories'[u].conversations = <<>>
                          /\ user_memories'[u].buffer_memory = <<>>
                          /\ DOMAIN user_memories'[u].context # {}
      ]_vars

\* The first call ever made was an export for a user, who now has a state.
C16_Witness ==
    /\ ops = 1
    /\ resp.op = "export"
    /\ resp.user \in DOMAIN user_memories
    /\ user_memories[resp.user] = FreshMemory

\* C17: when the vector store holds no vectors, ask_question returns its
\* canned answer without having invoked the embedding capability.
C17_EmptyStoreSkipsEmbedding ==
    [][ \A s \in Slots :
           (req[s].pc = "ask_embed" /\ req'[s] # req[s] /\ vectors = {}
               /\ resp'.op = "ask" /\ resp'.status = 200) =>
              /\ resp'.answer = NoNotesAnswer
              /\ ~resp'.embedding.invoked
      ]_vars

\* C18: the memory messages ask_question places in the generation prompt,
\* between the system message and the question, are the user's last
\* min(4, n) recorded turns in the order they were recorded, each with the
\* text of the turn and the role user for a user turn and assistant for an
\* assistant turn; none has empty content.
TurnMessage(turn) ==
    [role |-> IF turn.is_user THEN "user" ELSE "assistant", content |-> turn.message]

MemoryPart(messages) == SubSeq(messages, 2, Len(messages) - 1)

C18_PromptMemoryIsLastTurns ==
    [][ \A s \in Slots :
           (req[s].pc = "ask_embed" /\ req'[s].pc = "ask_generate") =>
              LET turns == LastN(recorded[req[s].user], 4)
                  part == MemoryPart(req'[s].messages)
              IN  /\ part = [i \in 1..Len(turns) |-> TurnMessage(turns[i])]
                  /\ \A i \in 1..Len(part) : part[i].content # ""
      ]_vars

\* C19: every message sequence ask_question passes to generation has
\* exactly one system message, in first position; its last message is a
\* user message that carries the current question; at most 4 messages
\* stand between the two, so the sequence has 2 to 6 messages.
C19_PromptShape ==
    \A s \in Slots :
        req[s].pc = "ask_generate" =>
            LET messages == req[s].messages
                n == Len(messages)
            IN  /\ 2 <= n /\ n <= 6
                /\ {i \in 1..n : messages[i].role = "system"} = {1}
                /\ messages[n] =
                      [role |-> "user",
                       content |-> QuestionPrompt(req[s].question,
                                                  Context(req[s].relevant_notes))]
                /\ Len(MemoryPart(messages)) <= 4

\* A prompt is built for a user whose recency window holds six messages.
C19_Witness ==
    /\ req[1].pc = "ask_generate"
    /\ Len(Window(req[1].user)) = 6
    /\ Len(req[1].messages) = 6

\* C20: in every reachable state, whatever the interleaving of concurrent
\* create, update and delete requests, each live note has at most one
\* vector in the index.
C20_AtMostOneVectorPerNote ==
    \A id \in DOMAIN notes : Cardinality(EmbeddingsOf(id)) <= 1

\* C21: while an update of a note that had a vector is suspended at its
\* embedding call, between its delete and its insert, the index that
\* searches read holds a vector for the note, and a search that runs its
\* query then returns the note: no search observes the note with zero
\* vectors.
UpdateSuspended(t) ==
    /\ req[t].pc = "add_note"
    /\ req[t].handler = "update"
    /\ req[t].deleted # {}

C21_SearchNeverSeesZeroVectors ==
    [][ \A t \in Slots :
           UpdateSuspended(t) =>
              /\ EmbeddingsOf(req[t].note.id) # {}
              /\ \A s \in Slots \ {t} :
                    (req[s].pc = "ask_embed" /\ req'[s] # req[s]
                        /\ Cardinality(JoinRows) <= TopK
                        /\ (req'[s].pc = "ask_generate"
                               \/ resp'.embedding.result # None)) =>
                       /\ req'[s].pc = "ask_generate"
                       /\ \E i \in 1..Len(req'[s].relevant_notes) :
                             req'[s].relevant_notes[i].id = req[t].note.id
      ]_vars

\* A search has returned a note with its updated content while the update
\* that wrote it is still suspended between its delete and its insert.
C21_Witness ==
    \E s, t \in Slots :
        /\ UpdateSuspended(t)
        /\ req[t].note.content # req[t].prev_content
        /\ req[s].pc = "ask_generate"
        /\ \E i \in 1..Len(req[s].relevant_notes) :
              /\ req[s].relevant_notes[i].id = req[t].note.id
              /\ req[s].relevant_notes[i].content = req[t].note.content

\* C22: under any interleaving of concurrent ask_question requests, no
\* memory update is lost and no exchange is split: a request whose
\* generation succeeded appends its question, immediately followed by its
\* answer, to whatever the user's log holds at that moment (the log keeping
\* its last 100), and in every state every user's log is a sequence of
\* such pairs, a user turn followed by an assistant turn.
PairsIn(log) ==
    /\ Len(log) % 2 = 0
    /\ \A i \in 1..Len(log) : log[i].is_user <=> (i % 2 = 1)

C22_ConcurrentAsksKeepExchanges ==
    [][ /\ GenerationSucceeded(resp') =>
              LET u == resp'.user
                  a == CHOOSE x \in resp'.generation.result : TRUE
              IN  \E t1, t2 \in 0..MaxClock :
                     LogIn(user_memories', u) =
                        LastN(Log(u) \o <<Turn("default", t1, resp'.question, TRUE),
                                          Turn("default", t2, a, FALSE)>>, 100)
        /\ \A u \in Users : PairsIn(LogIn(user_memories', u))
      ]_vars

\* Two requests of one user have both succeeded, and the one that finished
\* last had built its prompt before the turns of the other were written.
C22_Witness ==
    /\ GenerationSucceeded(resp)
    /\ Len(resp.messages) = 2
    /\ Len(Log(resp.user)) = 4
    /\ Log(resp.user)[3].message = resp.question

\* C23: an ask_question request cancelled or abandoned at a suspension
\* point leaves every user's log and recency window as they were; a step
\* changes a user's log only when it is the return of a generation with
\* non-empty text, which appends two turns, or a clear; so the turns
\* written by ask requests are two per such request, never one.
C23_CancelledAskKeepsMemory ==
    [][ /\ resp'.op = "ask_cancelled" => MemoryUntouched
        /\ \A u \in Users :
              LogIn(user_memories', u) # Log(u) =>
                 \/ /\ GenerationSucceeded(resp') /\ resp'.user = u
                    /\ LogIn(user_memories', u) = LastN(recorded'[u], 100)
                    /\ Len(recorded'[u]) = Len(recorded[u]) + 2
                 \/ resp'.op = "clear" /\ resp'.user = u
        /\ \A u \in Users : Len(LogIn(user_memories', u)) % 2 = 0
      ]_vars

\* A request was abandoned at its generation call after an earlier request
\* of the same user had been answered.
C23_Witness ==
    /\ resp.op = "ask_cancelled" /\ resp.at = "ask_generate"
    /\ Len(Log(resp.user)) = 2

\* C24: a memory operation on one user (add_message, update_user_context,
\* clear_user_memory or a read that creates the user's state) leaves every
\* other user's presence in the registry, log, recency window and context
\* map as they were.
C24_UsersAreIndependent ==
    [][ resp'.op \in ManagerOps =>
           \A x \in Users \ {resp'.user} :
              /\ (x \in DOMAIN user_memories') <=> (x \in DOMAIN user_memories)
              /\ x \in DOMAIN user_memories =>
                    /\ user_memories'[x].conversations = user_memories[x].conversations
                    /\ user_memories'[x].buffer_memory = user_memories[x].buffer_memory
                    /\ user_memories'[x].context = user_memories[x].context
      ]_vars

\* One user's context was updated while another user has a state of their
\* own, with a turn in its log and no context.
C24_Witness ==
    /\ resp.op = "update_context"
    /\ \E x \in (DOMAIN user_memories) \ {resp.user} :
          /\ Len(user_memories[x].conversations) = 1
          /\ user_memories[x].context = <<>>

\* C25: when stored notes have equal similarity to the query, the
\* similarity search returns them by note id ascending, and a note left
\* out by the top-K cutoff is no better placed than the last one returned:
\* it is less similar, or as similar with a greater id.
C25_TiesByNoteId ==
    (resp.op = "search" /\ resp.query_embedding # None) =>
        LET value == resp.value
            n == Len(value)
            e == CHOOSE x \in resp.query_embedding : TRUE
        IN  /\ \A i \in 1..(n - 1) :
                  value[i].similarity = value[i + 1].similarity =>
                     value[i].id < value[i + 1].id
            /\ n > 0 =>
                  \A v \in JoinRows :
                     (\A i \in 1..n : value[i].id # v.note_id) =>
                        \/ 1 - CosineDistance(v.embedding, e) < value[n].similarity
                        \/ /\ 1 - CosineDistance(v.embedding, e) = value[n].similarity
                           /\ v.note_id > value[n].id

\* C26: the turns get_summary_context(user) hands to the summarizing
\* generation call are the turns recorded for that user with add_message,
\* in order, and the summary it starts from is the user's prior summary.
RecordedMessage(turn) ==
    IF turn.is_user THEN HumanMessage(turn.message) ELSE AIMessage(turn.message)

SummaryIn(um, u) ==
    IF u \in DOMAIN um THEN um[u].summary_memory.buffer ELSE ""

PriorSummary(u) == SummaryIn(user_memories, u)

C26_SummaryFromRecordedTurns ==
    resp.op = "summary" =>
        LET turns == recorded[resp.user]
        IN  /\ resp.handed.messages = [i \in 1..Len(turns) |-> RecordedMessage(turns[i])]
            /\ resp.handed.existing_summary = PriorSummary(resp.user)

\* C27: when the generation call made by get_summary_context fails, the
\* call does not raise, it returns the user's previous summary, and the
\* stored summary is as it was.
C27_SummaryFailureKeepsPrior ==
    [][ (resp'.op = "summary" /\ resp'.generation.result = None) =>
           /\ ~resp'.raised
           /\ resp'.value = Some(PriorSummary(resp'.user))
           /\ SummaryIn(user_memories', resp'.user) = PriorSummary(resp'.user)
      ]_vars

\* C28: in every reachable state, whatever the interleaving of create,
\* update and delete requests, every vector in the index refers to a live
\* note: no vector has the id of a deleted note.
C28_VectorsReferToLiveNotes ==
    \A v \in vectors : v.note_id \in DOMAIN notes

\* The only note was deleted while an update of it was suspended at its
\* embedding call; the update then got its embedding and failed to insert.
C28_Witness ==
    /\ resp.op = "update" /\ resp.status = 500
    /\ resp.embedding # None
    /\ next_note_id = 2
    /\ DOMAIN notes = {}

=============================================================================
